---- MODULE Spec2Model ----
(***************************************************************************)
(* Model of the Stockfish adapter (class Stockfish) and of the engine     *)
(* process it drives.  Strings are sequences of one-character strings, so *)
(* that split, replace and parseInt are computed as the code computes     *)
(* them.                                                                  *)
(***************************************************************************)
EXTENDS Integers, Sequences, FiniteSets, TLC

\* ------------------------------------------------------------------ bounds
\* Number of setPosition / run calls the caller issues.
MaxCalls == 2
\* Number of progress ('info') lines the engine prints in its lifetime.
MaxInfo == 3
\* A chunk ends on a line terminator or at most MaxSplit characters into a line.
MaxSplit == 1
\* Length of the byte strings framed under two chunkings (SpecChunk).
MaxStream == 3

\* ------------------------------------------------------- JavaScript values
\* The value `undefined` (no string of the model is this one-element sequence).
Undefined == <<"undefined">>
\* A number n is <<n>>; NaN is the empty tuple.
NaN == <<>>
Num(n) == <<n>>
NL == "\n"
SP == " "

\* a < b on numbers (false when either side is NaN)
JsLess(a, b) == a # NaN /\ b # NaN /\ a[1] < b[1]

\* String.prototype.split(sep) for a one-character separator: the pieces
\* between consecutive separators, empty pieces included
Split(s, sep) ==
  LET seps == SelectSeq([i \in 1..Len(s) |-> i], LAMBDA i : s[i] = sep)
      n == Len(seps)
  IN [j \in 1..(n + 1) |->
        SubSeq(s, (IF j = 1 THEN 0 ELSE seps[j - 1]) + 1,
                  (IF j > n THEN Len(s) + 1 ELSE seps[j]) - 1)]

\* words[k] of a JavaScript array (0-indexed), undefined past its end
Word(words, k) == IF k + 1 <= Len(words) THEN words[k + 1] ELSE Undefined

\* index of the first occurrence of pat in s, 0 when there is none
IndexOf(s, pat) ==
  LET hits == {i \in 1..(Len(s) - Len(pat) + 1) : SubSeq(s, i, i + Len(pat) - 1) = pat}
  IN IF hits = {} THEN 0 ELSE CHOOSE i \in hits : \A j \in hits : i <= j

\* String.prototype.replace(pat, ""), pat a string: the first occurrence only
ReplaceFirst(s, pat) ==
  LET i == IndexOf(s, pat)
  IN IF i = 0 THEN s ELSE SubSeq(s, 1, i - 1) \o SubSeq(s, i + Len(pat), Len(s))

IsDigit(c) == c \in {"0", "1", "2", "3", "4", "5", "6", "7", "8", "9"}

DigitVal(c) ==
  CASE c = "0" -> 0 [] c = "1" -> 1 [] c = "2" -> 2 [] c = "3" -> 3 [] c = "4" -> 4
    [] c = "5" -> 5 [] c = "6" -> 6 [] c = "7" -> 7 [] c = "8" -> 8 [] c = "9" -> 9

RECURSIVE DigitsValue(_, _, _)
DigitsValue(s, i, acc) ==
  IF i > Len(s) \/ ~IsDigit(s[i]) THEN acc
  ELSE DigitsValue(s, i + 1, 10 * acc + DigitVal(s[i]))

\* parseInt(tok), radix 10: optional sign, then the longest prefix of digits;
\* NaN when there is no digit (the tokens of the model hold no white space
\* and no 0x prefix)
ParseInt(tok) ==
  LET signed == Len(tok) > 0 /\ tok[1] \in {"-", "+"}
      start == IF signed THEN 2 ELSE 1
  IN IF tok = Undefined \/ start > Len(tok) \/ ~IsDigit(tok[start]) THEN NaN
     ELSE IF signed /\ tok[1] = "-" THEN Num(0 - DigitsValue(tok, start, 0))
     ELSE Num(DigitsValue(tok, start, 0))

\* ------------------------------------------------------------ the move map
\* this.moveList is a sequence of <<key, record>> in the order the keys were
\* first inserted.

\* A canonical array index ("0", "7", "12"): such keys are enumerated first.
IsArrayIndex(key) ==
  /\ Len(key) > 0
  /\ Len(key) <= 9
  /\ \A i \in 1..Len(key) : IsDigit(key[i])
  /\ (key[1] = "0" => Len(key) = 1)

\* a map that appends every observation, also of a key it holds
PutMoveAppend(ml, key, rec) == Append(ml, <<key, rec>>)

\* a map that keeps the first observation of a key
PutMoveKeepFirst(ml, key, rec) ==
  IF \E i \in 1..Len(ml) : ml[i][1] = key THEN ml ELSE Append(ml, <<key, rec>>)

\* this.moveList[key] = rec
PutMove(ml, key, rec) ==
  IF \E i \in 1..Len(ml) : ml[i][1] = key
  THEN [i \in 1..Len(ml) |-> IF ml[i][1] = key THEN <<key, rec>> ELSE ml[i]]
  ELSE Append(ml, <<key, rec>>)

\* insertion of x into the sorted sequence s after every element that does
\* not compare greater: a stable sort
RECURSIVE InsertBy(_, _, _, _)
InsertBy(Before(_, _), s, x, i) ==
  IF i = 0 \/ ~Before(x, s[i])
  THEN SubSeq(s, 1, i) \o <<x>> \o SubSeq(s, i + 1, Len(s))
  ELSE InsertBy(Before, s, x, i - 1)

RECURSIVE StableSort(_, _, _)
StableSort(Before(_, _), arr, n) ==
  IF n = 0 THEN <<>>
  ELSE LET s == StableSort(Before, arr, n - 1) IN InsertBy(Before, s, arr[n], Len(s))

IndexBefore(a, b) == DigitsValue(a[1], 1, 0) < DigitsValue(b[1], 1, 0)

\* Object.entries(obj): array-index keys in ascending order, then the other
\* keys in insertion order
ObjectEntries(ml) ==
  LET idx == SelectSeq(ml, LAMBDA e : IsArrayIndex(e[1]))
      str == SelectSeq(ml, LAMBDA e : ~IsArrayIndex(e[1]))
  IN StableSort(IndexBefore, idx, Len(idx)) \o str

\* a comparator with the two return values exchanged
CompareDescending(a, b) ==
  IF JsLess(a[2][1], b[2][1]) THEN 1
  ELSE IF JsLess(b[2][1], a[2][1]) THEN 0 - 1
  ELSE 0

\* the comparator handed to sort by run: -1, 1 or 0 on the scores a[1][0], b[1][0]
Compare(a, b) ==
  IF JsLess(a[2][1], b[2][1]) THEN 0 - 1
  ELSE IF JsLess(b[2][1], a[2][1]) THEN 1
  ELSE 0

ScoreBefore(a, b) == Compare(a, b) < 0

\* array.sort(comparator) of run: a stable sort
SortMoves(array) == StableSort(ScoreBefore, array, Len(array))

\* --------------------------------------------------- the protocol's tokens
tInfo == <<"i", "n", "f", "o">>
tDepth == <<"d", "e", "p", "t", "h">>
tBestmove == <<"b", "e", "s", "t", "m", "o", "v", "e">>
tFen == <<"F", "e", "n", ":">>
FenPrefix == <<"F", "e", "n", ":", " ">>

\* array.join(sep)
RECURSIVE Join(_, _)
Join(words, sep) ==
  IF Len(words) = 0 THEN <<>>
  ELSE IF Len(words) = 1 THEN words[1]
  ELSE words[1] \o <<sep>> \o Join(Tail(words), sep)

\* ------------------------------------------------- the engine's vocabulary
\* What the engine process may print: the model's inputs.
e2e4 == <<"e", "2", "e", "4">>
d2d4 == <<"d", "2", "d", "4">>
Moves == {e2e4, d2d4}

\* the engine's printing of an integer in decimal
Digit(n) ==
  CASE n = 0 -> "0" [] n = 1 -> "1" [] n = 2 -> "2" [] n = 3 -> "3" [] n = 4 -> "4"
    [] n = 5 -> "5" [] n = 6 -> "6" [] n = 7 -> "7" [] n = 8 -> "8" [] n = 9 -> "9"

RECURSIVE Dec(_)
Dec(n) ==
  IF n < 0 THEN <<"-">> \o Dec(0 - n)
  ELSE IF n < 10 THEN <<Digit(n)>>
  ELSE Dec(n \div 10) \o <<Digit(n % 10)>>

\* 'info depth D sd 1 mpv 1 score cp S wdl W D L n 1 nps 1 hf 0 tb 0 t 1 pv MOVE':
\* the score is the 10th token, win/draw/loss the 12th to 14th, the move the 26th
InfoLine(e) ==
  Join(<<tInfo, tDepth, Dec(e.depth), <<"s", "d">>, <<"1">>, <<"m", "p", "v">>, <<"1">>,
         <<"s", "c", "o", "r", "e">>, <<"c", "p">>, Dec(e.score), <<"w", "d", "l">>,
         Dec(e.win), Dec(e.draw), Dec(e.loss),
         <<"n">>, <<"1">>, <<"n", "p", "s">>, <<"1">>,
         <<"h", "f">>, <<"0">>, <<"t", "b">>, <<"0">>, <<"t">>, <<"1">>,
         <<"p", "v">>, e.move>>, SP)

Eval(depth, score, win, draw, loss, move) ==
  [depth |-> depth, score |-> score, win |-> win, draw |-> draw, loss |-> loss, move |-> move]

\* the evaluations the engine reports
Evals == {Eval(1, 20, 3, 5, 2, e2e4), Eval(1, 20, 3, 5, 2, d2d4), Eval(2, 0 - 5, 1, 5, 4, e2e4)}

\* the line the engine prints for each evaluation
InfoLineOf == [e \in Evals |-> InfoLine(e)]

InfoLines == {InfoLineOf[e] : e \in Evals}

\* the evaluation a line of InfoLines was printed for
EvalOf(line) == CHOOSE e \in Evals : InfoLineOf[e] = line

\* a progress line too short to carry a move: 'info depth 1 currmove e2e4'
ShortLine == Join(<<tInfo, tDepth, <<"1">>, <<"c", "m">>, e2e4>>, SP)

BestmoveLine == Join(<<tBestmove, e2e4>>, SP)

\* the position strings the engine reports
Fens == {<<"8", " ", "w">>, <<"8", " ", "b">>}

FenLine(f) == FenPrefix \o f

KeyLine == <<"K", "e", "y", ":", " ", "1">>

Banner == <<"S", "F">>

\* an evaluation line with a bound marker after the score, which moves every
\* later token one place to the right:
\* 'info depth 1 sd 1 mpv 1 score cp 20 upperbound wdl 3 5 2 n 1 ... pv e2e4'
BoundLine ==
  Join(<<tInfo, tDepth, <<"1">>, <<"s", "d">>, <<"1">>, <<"m", "p", "v">>, <<"1">>,
         <<"s", "c", "o", "r", "e">>, <<"c", "p">>, <<"2", "0">>,
         <<"u", "p", "p", "e", "r", "b", "o", "u", "n", "d">>, <<"w", "d", "l">>,
         <<"3">>, <<"5">>, <<"2">>,
         <<"n">>, <<"1">>, <<"n", "p", "s">>, <<"1">>,
         <<"h", "f">>, <<"0">>, <<"t", "b">>, <<"0">>, <<"t">>, <<"1">>,
         <<"p", "v">>, e2e4>>, SP)

\* 'bestmove (none)': the end of a search that found no move
BestmoveNone == Join(<<tBestmove, <<"(", "n", "o", "n", "e", ")">>>>, SP)

\* all sequences over S of length at most n
RECURSIVE SeqsUpTo(_, _)
SeqsUpTo(S, n) ==
  IF n = 0 THEN {<<>>}
  ELSE LET shorter == SeqsUpTo(S, n - 1)
       IN shorter \cup {Append(q, x) : q \in {r \in shorter : Len(r) = n - 1}, x \in S}

\* the answers to 'd': an empty line, the position report, the key line
DAnswers == {<<<<>>, FenLine(f), KeyLine>> : f \in Fens}

\* the answers to 'go depth n': progress lines, then the bestmove line; a
\* 'currmove' line, when there is one, comes first and before at most one
\* evaluation line
GoAnswers ==
  {q \o <<BestmoveLine>> : q \in SeqsUpTo(InfoLines, MaxInfo)}
    \cup {<<ShortLine>> \o q \o <<BestmoveLine>> : q \in SeqsUpTo(InfoLines, 1)}

\* the progress lines of an answer
Progress(lines) == SelectSeq(lines, LAMBDA l : l \in InfoLines \cup {ShortLine})

\* an engine that dies prints its answer without the last line or lines
Prefixes(q) == {SubSeq(q, 1, n) : n \in 0..Len(q)}

\* what the engine prints on 'd': an answer, or the start of one
DPrints == UNION {Prefixes(q) : q \in DAnswers}

\* what the engine prints on 'go': an answer, or the progress lines of an
\* answer with a single evaluation
GoPrints == GoAnswers \cup UNION {Prefixes(q) : q \in {r \in GoAnswers : Len(r) = 2}}

Answers(cmd) == IF cmd = "d" THEN DPrints ELSE GoPrints

\* An engine that prints more than the adapter expects: progress lines of
\* other shapes before the bestmove line, and lines after the marker line.
WildProgress == {InfoLineOf[Eval(1, 20, 3, 5, 2, e2e4)], BoundLine, ShortLine}

WildGoAnswers ==
  {q \o <<b>> \o r :
     q \in SeqsUpTo(WildProgress, 2),
     b \in {BestmoveLine, BestmoveNone},
     r \in SeqsUpTo({InfoLineOf[Eval(1, 20, 3, 5, 2, d2d4)], BestmoveLine}, 1)}

WildDAnswers ==
  {<<FenLine(f)>> \o r : f \in Fens, r \in SeqsUpTo({KeyLine} \cup {FenLine(g) : g \in Fens}, 1)}

WildAnswers(cmd) == IF cmd = "d" THEN WildDAnswers ELSE WildGoAnswers

\* what the engine prints when it starts: its banner, and possibly a line
\* that has the shape of a position report
Startups == {<<Banner>>, <<Banner, FenLine(<<"8", " ", "w">>)>>}

\* the bytes of a sequence of lines, each with its terminator
RECURSIVE Bytes(_)
Bytes(lines) == IF Len(lines) = 0 THEN <<>> ELSE lines[1] \o <<NL>> \o Bytes(Tail(lines))

NonEmpty(lines) == SelectSeq(lines, LAMBDA l : l # <<>>)

\* ---------------------------------------------------------------- the state
VARIABLES
  mode,        \* this.mode: "none", "setPosition" or "getMovesList"
  buffer,      \* this.buffer
  fen,         \* this.fen
  moveList,    \* this.moveList
  maxDepth,    \* this.maxDepth
  eventDone,   \* this.eventDone: event name -> the calls whose listener is registered
  calls,       \* the promises returned by setPosition and run, in call order
  stdin,       \* engine.stdin: the commands written and not yet read by the engine
  stdout,      \* engine.stdout: the bytes printed and not yet handed to the 'data' listener
  pass,        \* the buffer dispatched by the last 'data' event, <<>> when it dispatched none
  passMode,    \* this.mode at that dispatch
  undelivered, \* the non-empty lines printed by the engine and not yet dispatched
  answer,      \* the call the engine answered last and the lines of its answer
  printed,     \* the number of progress lines the engine has printed
  stream,      \* SpecChunk: the bytes two sessions receive under two chunkings
  sessA,       \* SpecChunk: the first session: bytes to come, buffer, lines dispatched
  sessB        \* SpecChunk: the second session

vars ==
  <<mode, buffer, fen, moveList, maxDepth, eventDone, calls, stdin, stdout,
    pass, passMode, undelivered, answer, printed, stream, sessA, sessB>>

chunkVars == <<stream, sessA, sessB>>

Events == {"fen-done", "get-moves-list-done"}

Command(text, call) == [text |-> text, call |-> call]

\* constructor(command, {thread: 7, verbose: false})
Construct ==
  /\ mode = "none"
  /\ buffer = <<>>
  /\ fen = Undefined
  /\ moveList = Undefined
  /\ maxDepth = Undefined
  /\ eventDone = [e \in Events |-> <<>>]
  /\ calls = <<>>
  /\ stdin = <<Command("setoption name MultiPV value 250", 0),
               Command("setoption name Threads value 7", 0),
               Command("setoption name UCI_ShowWDL value true", 0)>>
  /\ stdout = Bytes(<<Banner>>)
  /\ pass = <<>>
  /\ passMode = "none"
  /\ undelivered = <<Banner>>
  /\ answer = [call |-> 0, lines |-> <<>>]
  /\ printed = 0

NewSession(bytes) == [rest |-> bytes, buffer |-> <<>>, framed |-> <<>>]

Init ==
  /\ Construct
  /\ stream = <<>>
  /\ sessA = NewSession(<<>>)
  /\ sessB = NewSession(<<>>)

\* ------------------------------------------------------ completion signalling
\* a promise that takes the value of every resolve
ResolveAgain(cs, c, v) ==
  [cs EXCEPT ![c] = [kind |-> cs[c].kind, state |-> "resolved", value |-> v]]

\* resolve(v) on the promise of call c: settles it once, later calls do nothing
Resolve(cs, c, v) ==
  IF cs[c].state = "pending"
  THEN [cs EXCEPT ![c] = [kind |-> cs[c].kind, state |-> "resolved", value |-> v]]
  ELSE cs

\* the listener setPosition registers on 'fen-done': resolve(this.fen)
FenDoneListener(s, c) == [s EXCEPT !.calls = Resolve(s.calls, c, s.fen)]

\* a listener that resolves with the entries as enumerated, not sorted
MovesDoneListenerUnsorted(s, c) ==
  [s EXCEPT !.calls = Resolve(s.calls, c, ObjectEntries(s.moveList))]

\* the listener run registers on 'get-moves-list-done'
MovesDoneListener(s, c) ==
  LET array == SortMoves(ObjectEntries(s.moveList))
  IN [s EXCEPT !.calls = Resolve(s.calls, c, array)]

\* an emitter that invokes no listener
EmitNothing(s, event, listeners) == s

\* an emitter that invokes the listener registered last
EmitLatest(s, event, listeners) ==
  IF listeners[event] = <<>> THEN s
  ELSE IF event = "fen-done"
       THEN [s EXCEPT !.calls = Resolve(s.calls, listeners[event][Len(listeners[event])], s.fen)]
       ELSE [s EXCEPT !.calls = Resolve(s.calls, listeners[event][Len(listeners[event])],
                                       SortMoves(ObjectEntries(s.moveList)))]

\* this.eventDone.emit(event): the listeners of the event, in registration order
RECURSIVE EmitFrom(_, _, _, _)
EmitFrom(s, event, listeners, i) ==
  IF i > Len(listeners) THEN s
  ELSE LET c == listeners[i]
           s1 == IF event = "fen-done" THEN FenDoneListener(s, c)
                 ELSE MovesDoneListener(s, c)
       IN EmitFrom(s1, event, listeners, i + 1)

Emit(s, event, listeners) == EmitFrom(s, event, listeners[event], 1)

\* ------------------------------------------------------------------ parsers
\* a parser that fires 'fen-done' before it stores the position string
ProcessFenLineStale(s, line, listeners) ==
  LET words == Split(line, SP)
  IN IF Word(words, 0) = tFen
     THEN [Emit(s, "fen-done", listeners) EXCEPT !.fen = ReplaceFirst(line, FenPrefix)]
     ELSE s

\* a parser that takes every line for the position report
ProcessFenLineAnyLine(s, line, listeners) ==
  Emit([s EXCEPT !.fen = ReplaceFirst(line, FenPrefix)], "fen-done", listeners)

\* the body of processFen's forEach for one line
ProcessFenLine(s, line, listeners) ==
  LET words == Split(line, SP)
  IN IF Word(words, 0) = tFen
     THEN Emit([s EXCEPT !.fen = ReplaceFirst(line, FenPrefix)], "fen-done", listeners)
     ELSE s

\* the record stored for a candidate-evaluation line
MoveRecord(words) ==
  <<ParseInt(Word(words, 9)), ParseInt(Word(words, 11)),
    ParseInt(Word(words, 12)), ParseInt(Word(words, 13))>>

IsEvalLine(words) ==
  Word(words, 0) = tInfo /\ Word(words, 1) = tDepth /\ Word(words, 25) # Undefined

\* the body of processMoveList's forEach for one line
ProcessMoveListLine(s, line, listeners) ==
  LET words == Split(line, SP)
      s1 == IF Word(words, 0) = tBestmove
            THEN Emit(s, "get-moves-list-done", listeners)
            ELSE s
      depth == ParseInt(Word(words, 2))
  IN IF IsEvalLine(words)
     THEN [s1 EXCEPT !.maxDepth = IF JsLess(@, depth) THEN depth ELSE @,
                     !.moveList = PutMove(@, Word(words, 25), MoveRecord(words))]
     ELSE s1

RECURSIVE ForEachLine(_, _, _, _, _)
ForEachLine(s, parser, lines, listeners, i) ==
  IF i > Len(lines) THEN s
  ELSE LET s1 == IF parser = "setPosition" THEN ProcessFenLine(s, lines[i], listeners)
                 ELSE ProcessMoveListLine(s, lines[i], listeners)
       IN ForEachLine(s1, parser, lines, listeners, i + 1)

\* processFen(data)
ProcessFen(s, data, listeners) ==
  ForEachLine(s, "setPosition", Split(data, NL), listeners, 1)

\* the record-storing part of processMoveList alone
RECURSIVE StoreLines(_, _, _)
StoreLines(s, lines, i) ==
  IF i > Len(lines) THEN s
  ELSE LET words == Split(lines[i], SP)
           depth == ParseInt(Word(words, 2))
           s1 == IF IsEvalLine(words)
                 THEN [s EXCEPT !.maxDepth = IF JsLess(@, depth) THEN depth ELSE @,
                                !.moveList = PutMove(@, Word(words, 25), MoveRecord(words))]
                 ELSE s
       IN StoreLines(s1, lines, i + 1)

\* a parser that stores the records of all lines of the buffer and then fires
\* 'get-moves-list-done' when one of the lines is a bestmove line
ProcessMoveListEmitLast(s, data, listeners) ==
  LET lines == Split(data, NL)
      s1 == StoreLines(s, lines, 1)
  IN IF \E i \in 1..Len(lines) : Word(Split(lines[i], SP), 0) = tBestmove
     THEN Emit(s1, "get-moves-list-done", listeners)
     ELSE s1

\* processMoveList(data): this.currentLine is never assigned, so the prefix is ''
ProcessMoveList(s, data, listeners) ==
  ForEachLine(s, "getMovesList", Split(<<>> \o data, NL), listeners, 1)

\* ------------------------------------------------------------------- framer
\* a listener that assigns the chunk to the buffer instead of appending it
FramerNoAppend(buf, data) ==
  IF Len(data) > 0 /\ data[Len(data)] = NL
  THEN [buffer |-> <<>>, pass |-> data]
  ELSE [buffer |-> data, pass |-> <<>>]

\* a listener that dispatches the complete lines of the buffer and keeps the
\* unterminated rest
FramerLines(buf, data) ==
  LET b == buf \o data
      nls == {i \in 1..Len(b) : b[i] = NL}
      last == IF nls = {} THEN 0 ELSE CHOOSE i \in nls : \A j \in nls : j <= i
  IN [buffer |-> SubSeq(b, last + 1, Len(b)), pass |-> SubSeq(b, 1, last)]

\* the 'data' listener's buffer handling: append; when the last character of
\* the buffer is the terminator the whole buffer is dispatched and emptied
Framer(buf, data) ==
  LET b == buf \o data
  IN IF Len(b) > 0 /\ b[Len(b)] = NL
     THEN [buffer |-> <<>>, pass |-> b]
     ELSE [buffer |-> b, pass |-> <<>>]

\* a switch with its two cases exchanged
DispatchExchanged(s, m, data, listeners) ==
  IF m = "setPosition" THEN ProcessMoveList(s, data, listeners)
  ELSE IF m = "getMovesList" THEN ProcessFen(s, data, listeners)
  ELSE s

\* a switch whose default case is the position parser
DispatchIdleAsFen(s, m, data, listeners) ==
  IF m = "getMovesList" THEN ProcessMoveList(s, data, listeners)
  ELSE ProcessFen(s, data, listeners)

\* the switch on this.mode
Dispatch(s, m, data, listeners) ==
  IF m = "setPosition" THEN ProcessFen(s, data, listeners)
  ELSE IF m = "getMovesList" THEN ProcessMoveList(s, data, listeners)
  ELSE s

\* the lines a dispatched buffer is split into
PassLines(b) == IF b = <<>> THEN <<>> ELSE NonEmpty(Split(b, NL))

\* the sizes of the next chunk: it ends on a terminator, or at most MaxSplit
\* characters after the start of a line
ChunkSizes(buf, pipe) ==
  LET nlBuf == {i \in 1..Len(buf) : buf[i] = NL}
      lastBuf == IF nlBuf = {} THEN 0 ELSE CHOOSE i \in nlBuf : \A j \in nlBuf : j <= i
      nls == {i \in 1..Len(pipe) : pipe[i] = NL}
      starts == nls \cup {lastBuf - Len(buf)}
  IN {k \in nls \cup {p + j : p \in starts, j \in 1..MaxSplit} : k >= 1 /\ k <= Len(pipe)}

\* ------------------------------------------------------------------ actions
Pending == \E c \in 1..Len(calls) : calls[c].state = "pending"

NewCall(kind) == [kind |-> kind, state |-> "pending", value |-> <<>>]

\* a setPosition whose listener takes the place of the listeners before it
SetPositionOneListener(fenArg, moves) ==
  /\ Len(calls) < MaxCalls
  /\ mode' = "setPosition"
  /\ stdin' = stdin \o
       <<Command(IF fenArg = <<>> THEN "position startpos moves" ELSE "position fen", Len(calls) + 1),
         Command("d", Len(calls) + 1)>>
  /\ eventDone' = [eventDone EXCEPT !["fen-done"] = <<Len(calls) + 1>>]
  /\ calls' = Append(calls, NewCall("setPosition"))
  /\ pass' = <<>>
  /\ UNCHANGED <<buffer, fen, moveList, maxDepth, stdout, passMode, undelivered, answer, printed, chunkVars>>

\* setPosition(fen, moves)
SetPosition(fenArg, moves) ==
  /\ Len(calls) < MaxCalls
  /\ mode' = "setPosition"
  /\ stdin' = stdin \o
       <<Command(IF fenArg = <<>> THEN "position startpos moves" ELSE "position fen", Len(calls) + 1),
         Command("d", Len(calls) + 1)>>
  /\ eventDone' = [eventDone EXCEPT !["fen-done"] = Append(@, Len(calls) + 1)]
  /\ calls' = Append(calls, NewCall("setPosition"))
  /\ pass' = <<>>
  /\ UNCHANGED <<buffer, fen, moveList, maxDepth, stdout, passMode, undelivered, answer, printed, chunkVars>>

\* a run that creates the move map on the first run only
RunKeepList(depth) ==
  /\ Len(calls) < MaxCalls
  /\ maxDepth' = Num(0)
  /\ moveList' = IF \E c \in 1..Len(calls) : calls[c].kind = "run" THEN moveList ELSE <<>>
  /\ mode' = "getMovesList"
  /\ stdin' = Append(stdin, Command("go depth", Len(calls) + 1))
  /\ eventDone' = [eventDone EXCEPT !["get-moves-list-done"] = Append(@, Len(calls) + 1)]
  /\ calls' = Append(calls, NewCall("run"))
  /\ pass' = <<>>
  /\ UNCHANGED <<buffer, fen, stdout, passMode, undelivered, answer, printed, chunkVars>>

\* run(depth)
Run(depth) ==
  /\ Len(calls) < MaxCalls
  /\ maxDepth' = Num(0)
  /\ moveList' = <<>>
  /\ mode' = "getMovesList"
  /\ stdin' = Append(stdin, Command("go depth", Len(calls) + 1))
  /\ eventDone' = [eventDone EXCEPT !["get-moves-list-done"] = Append(@, Len(calls) + 1)]
  /\ calls' = Append(calls, NewCall("run"))
  /\ pass' = <<>>
  /\ UNCHANGED <<buffer, fen, stdout, passMode, undelivered, answer, printed, chunkVars>>

\* The engine reads its input up to the next command that has an answer and
\* prints the answer (or dies while printing it).
EngineAnswer ==
  \E n \in 1..Len(stdin) :
    /\ stdin[n].text \in {"d", "go depth"}
    /\ \A i \in 1..(n - 1) : stdin[i].text \notin {"d", "go depth"}
    /\ \E lines \in Answers(stdin[n].text) :
         /\ printed + Len(Progress(lines)) <= MaxInfo
         /\ printed' = printed + Len(Progress(lines))
         /\ stdout' = stdout \o Bytes(lines)
         /\ undelivered' = undelivered \o NonEmpty(lines)
         /\ answer' = [call |-> stdin[n].call, lines |-> lines]
    /\ stdin' = SubSeq(stdin, n + 1, Len(stdin))
    /\ pass' = <<>>
    /\ UNCHANGED <<mode, buffer, fen, moveList, maxDepth, eventDone, calls, passMode, chunkVars>>

\* the session fields the parsers read and write
Session == [fen |-> fen, moveList |-> moveList, maxDepth |-> maxDepth, calls |-> calls]

\* engine.stdout.on('data', ...): one chunk of the pipe
Data ==
  \E k \in ChunkSizes(buffer, stdout) :
  \E f \in {Framer(buffer, SubSeq(stdout, 1, k))} :
  \E t \in {IF f.pass = <<>> THEN Session ELSE Dispatch(Session, mode, f.pass, eventDone)} :
    /\ stdout' = SubSeq(stdout, k + 1, Len(stdout))
    /\ buffer' = f.buffer
    /\ pass' = f.pass
    /\ passMode' = mode
    /\ fen' = t.fen
    /\ moveList' = t.moveList
    /\ maxDepth' = t.maxDepth
    /\ calls' = t.calls
    /\ undelivered' = SubSeq(undelivered, Len(PassLines(f.pass)) + 1, Len(undelivered))
    /\ UNCHANGED <<mode, eventDone, stdin, answer, printed, chunkVars>>

\* the position arguments of the driver: none, or a position string
FenArgs == {<<>>, <<"8", " ", "w">>}

\* The caller awaits each call before it issues the next.
Next ==
  \/ ~Pending /\ \E f \in FenArgs : SetPosition(f, <<>>)
  \/ ~Pending /\ Run(1)
  \/ EngineAnswer
  \/ Data

Spec == Init /\ [][Next]_vars

\* ----------------------------------------------- a caller that does not wait
\* setPosition and run have no guard: the caller may issue a request while
\* another is pending.
NextReentrant ==
  \/ \E f \in FenArgs : SetPosition(f, <<>>)
  \/ Run(1)
  \/ EngineAnswer
  \/ Data

SpecReentrant == Init /\ [][NextReentrant]_vars

\* ------------------------------------------------ an engine that prints more
InitWild ==
  /\ mode = "none"
  /\ buffer = <<>>
  /\ fen = Undefined
  /\ moveList = Undefined
  /\ maxDepth = Undefined
  /\ eventDone = [e \in Events |-> <<>>]
  /\ calls = <<>>
  /\ stdin = <<Command("setoption name MultiPV value 250", 0),
               Command("setoption name Threads value 7", 0),
               Command("setoption name UCI_ShowWDL value true", 0)>>
  /\ \E start \in Startups : stdout = Bytes(start) /\ undelivered = start
  /\ pass = <<>>
  /\ passMode = "none"
  /\ answer = [call |-> 0, lines |-> <<>>]
  /\ printed = 0
  /\ stream = <<>>
  /\ sessA = NewSession(<<>>)
  /\ sessB = NewSession(<<>>)

\* The engine reads its input up to the next command that has an answer and
\* prints an answer of WildAnswers; printed counts the lines beside the marker.
EngineWild ==
  \E n \in 1..Len(stdin) :
    /\ stdin[n].text \in {"d", "go depth"}
    /\ \A i \in 1..(n - 1) : stdin[i].text \notin {"d", "go depth"}
    /\ \E lines \in WildAnswers(stdin[n].text) :
         /\ printed + Len(lines) - 1 <= MaxInfo
         /\ printed' = printed + Len(lines) - 1
         /\ stdout' = stdout \o Bytes(lines)
         /\ undelivered' = undelivered \o NonEmpty(lines)
         /\ answer' = [call |-> stdin[n].call, lines |-> lines]
    /\ stdin' = SubSeq(stdin, n + 1, Len(stdin))
    /\ pass' = <<>>
    /\ UNCHANGED <<mode, buffer, fen, moveList, maxDepth, eventDone, calls, passMode, chunkVars>>

\* The caller awaits each call before it issues the next.
NextWild ==
  \/ ~Pending /\ \E f \in FenArgs : SetPosition(f, <<>>)
  \/ ~Pending /\ Run(1)
  \/ EngineWild
  \/ Data

SpecWild == InitWild /\ [][NextWild]_vars

\* ------------------------------------------------- what the engine answered
Latest == Len(calls)

Resolved(c) == calls[c].state = "resolved"

\* the latest call, resolved, is of this kind
LatestResolved(kind) ==
  Latest > 0 /\ calls[Latest].kind = kind /\ Resolved(Latest)

IsPrefix(p, q) == Len(p) <= Len(q) /\ SubSeq(q, 1, Len(p)) = p

\* the position string of the report line of an answer to 'd'
ReportedFen(lines) == CHOOSE f \in Fens : \E i \in 1..Len(lines) : lines[i] = FenLine(f)

\* the indices of the evaluation lines of an answer to 'go' that precede its
\* bestmove line
EvalIndices(lines) ==
  {i \in 1..Len(lines) :
     /\ lines[i] \in InfoLines
     /\ \A j \in 1..i : lines[j] # BestmoveLine}

SearchedMoves(lines) == {EvalOf(lines[i]).move : i \in EvalIndices(lines)}

FirstIndex(lines, move) ==
  CHOOSE i \in EvalIndices(lines) :
    /\ EvalOf(lines[i]).move = move
    /\ \A j \in EvalIndices(lines) : EvalOf(lines[j]).move = move => i <= j

LastIndex(lines, move) ==
  CHOOSE i \in EvalIndices(lines) :
    /\ EvalOf(lines[i]).move = move
    /\ \A j \in EvalIndices(lines) : EvalOf(lines[j]).move = move => j <= i

\* the record of an evaluation: score, win, draw, loss
RecordOf(e) == <<Num(e.score), Num(e.win), Num(e.draw), Num(e.loss)>>

\* the entry a search reports for a move: its last evaluation
EntryOf(lines, move) == <<move, RecordOf(EvalOf(lines[LastIndex(lines, move)]))>>

\* r lists the moves of the search once each, by ascending score, moves of
\* equal score in the order of their first evaluation line
IsSearchResult(r, lines) ==
  /\ Len(r) = Cardinality(SearchedMoves(lines))
  /\ \A i \in 1..Len(r) : r[i][1] \in SearchedMoves(lines) /\ r[i] = EntryOf(lines, r[i][1])
  /\ \A i, j \in 1..Len(r) :
       i < j => \/ r[i][2][1][1] < r[j][2][1][1]
                \/ /\ r[i][2][1][1] = r[j][2][1][1]
                   /\ FirstIndex(lines, r[i][1]) < FirstIndex(lines, r[j][1])

\* C1: a call that has resolved resolved with the answer to its own commands:
\* setPosition with the position string of the report line the engine printed
\* for it, run with the result of the search the engine printed for it.
OwnAnswer ==
  /\ LatestResolved("setPosition") =>
       answer.call = Latest /\ calls[Latest].value = ReportedFen(answer.lines)
  /\ LatestResolved("run") =>
       answer.call = Latest /\ IsSearchResult(calls[Latest].value, answer.lines)

\* a second setPosition resolved with a position that differs from the first's
OwnAnswerWitness ==
  /\ Latest = 2
  /\ calls[1].kind = "setPosition"
  /\ LatestResolved("setPosition")
  /\ calls[1].value # calls[2].value

\* C2: between the completion of a request and the next request the mode is
\* 'none'.
IdleBetweenRequests == ~Pending => mode = "none"

\* C3: the non-empty lines of a dispatched buffer are the next lines the
\* engine printed, in order: lines are neither lost, duplicated, reordered
\* nor delivered before their terminator.
FramedInOrder == [][pass' # <<>> => IsPrefix(PassLines(pass'), undelivered)]_vars

\* a buffer of two lines was dispatched while further lines were still to come
FramedInOrderWitness == Len(PassLines(pass)) >= 2 /\ undelivered # <<>> /\ stdout # <<>>

\* the lines the engine printed in answer to the latest call
OwnLines == IF answer.call = Latest THEN answer.lines ELSE <<>>

Keys(r) == {r[i][1] : i \in 1..Len(r)}

\* C5: the result of run has exactly one entry per distinct move that has an
\* evaluation line between the run and its bestmove line.
OneEntryPerMove ==
  LatestResolved("run") =>
    /\ Len(calls[Latest].value) = Cardinality(SearchedMoves(OwnLines))
    /\ Keys(calls[Latest].value) = SearchedMoves(OwnLines)

\* three evaluation lines for two distinct moves
OneEntryPerMoveWitness ==
  /\ LatestResolved("run")
  /\ Cardinality(EvalIndices(OwnLines)) = 3
  /\ Len(calls[Latest].value) = 2

OwnRecords(move) ==
  {RecordOf(EvalOf(OwnLines[i])) : i \in {j \in EvalIndices(OwnLines) : EvalOf(OwnLines[j]).move = move}}

\* C7: during and after a run, the move map and the result hold only
\* evaluations of that run's own search, none of an earlier request.
NoLeak ==
  (Latest > 0 /\ calls[Latest].kind = "run") =>
    /\ \A i \in 1..Len(moveList) : moveList[i][2] \in OwnRecords(moveList[i][1])
    /\ \A i \in 1..Len(calls[Latest].value) :
         calls[Latest].value[i][2] \in OwnRecords(calls[Latest].value[i][1])

\* a first run reported a move that the second run's result does not hold
NoLeakWitness ==
  /\ Latest = 2
  /\ calls[1].kind = "run"
  /\ LatestResolved("run")
  /\ Len(calls[2].value) >= 1
  /\ Keys(calls[1].value) \ Keys(calls[2].value) # {}

\* C8: the record returned for a move is that of the last evaluation line
\* that names the move before the bestmove line.
LastEvaluationWins ==
  LatestResolved("run") =>
    \A i \in 1..Len(calls[Latest].value) :
      /\ calls[Latest].value[i][1] \in SearchedMoves(OwnLines)
      /\ calls[Latest].value[i] = EntryOf(OwnLines, calls[Latest].value[i][1])

\* a move evaluated twice with different records, beside another move
LastEvaluationWinsWitness ==
  /\ LatestResolved("run")
  /\ Len(calls[Latest].value) = 2
  /\ \E m \in SearchedMoves(OwnLines) :
       EvalOf(OwnLines[FirstIndex(OwnLines, m)]) # EvalOf(OwnLines[LastIndex(OwnLines, m)])

EventOf(kind) == IF kind = "setPosition" THEN "fen-done" ELSE "get-moves-list-done"

ListenerCount(event, c) ==
  Cardinality({i \in 1..Len(eventDone[event]) : eventDone[event][i] = c})

\* C9: each call has exactly one listener, on its own event, and the firing
\* resolves it with this.fen (setPosition) or the sorted entries of
\* this.moveList (run).
OneWaiterPerCall ==
  /\ \A c \in 1..Latest : \A e \in Events :
       ListenerCount(e, c) = IF e = EventOf(calls[c].kind) THEN 1 ELSE 0
  /\ LatestResolved("setPosition") => calls[Latest].value = fen
  /\ LatestResolved("run") => calls[Latest].value = SortMoves(ObjectEntries(moveList))

\* two runs, the second resolved with entries the sort has reordered
OneWaiterPerCallWitness ==
  /\ Latest = 2
  /\ calls[1].kind = "run"
  /\ LatestResolved("run")
  /\ Len(eventDone["get-moves-list-done"]) = 2
  /\ calls[Latest].value # ObjectEntries(moveList)

FirstWord(line) == Word(Split(line, SP), 0)

\* the marker line that completes a call of this kind
MarkerIn(kind, lines) ==
  \E i \in 1..Len(lines) :
    FirstWord(lines[i]) = IF kind = "setPosition" THEN tFen ELSE tBestmove

\* C10: a pending call resolves only in a 'data' event that dispatches, in
\* the mode of the call, a buffer with the call's marker line.
OnlyMarkerResolves ==
  [][\A c \in 1..Len(calls) :
       (calls[c].state = "pending" /\ calls'[c].state = "resolved") =>
         /\ pass' # <<>>
         /\ passMode' = (IF calls[c].kind = "setPosition" THEN "setPosition" ELSE "getMovesList")
         /\ MarkerIn(calls[c].kind, PassLines(pass'))]_vars

\* the engine died before the marker line: everything it printed has been
\* dispatched and the call is pending, with nothing left to happen
OnlyMarkerResolvesWitness ==
  /\ Pending
  /\ answer.call = Latest
  /\ stdin = <<>>
  /\ stdout = <<>>
  /\ buffer = <<>>
  /\ pass # <<>>

\* ------------------------------------------------ lines of other shapes
\* a progress line that is not an evaluation line of the expected layout:
\* too short to hold a move, or with its fields at other places
Malformed(line) == FirstWord(line) = tInfo /\ line \notin InfoLines

\* C12: a pass of malformed or short progress lines in getMovesList mode
\* leaves the move map unchanged (no partial record is stored) and completes
\* no call.
MalformedSkipped ==
  [][(/\ pass' # <<>>
      /\ passMode' = "getMovesList"
      /\ \A i \in 1..Len(PassLines(pass')) : Malformed(PassLines(pass')[i]))
       => moveList' = moveList /\ calls' = calls]_vars

IsFile(c) == c \in {"a", "b", "c", "d", "e", "f", "g", "h"}

IsRank(c) == c \in {"1", "2", "3", "4", "5", "6", "7", "8"}

\* source square, destination square, optional promotion piece
IsMoveNotation(key) ==
  /\ Len(key) \in {4, 5}
  /\ IsFile(key[1]) /\ IsRank(key[2]) /\ IsFile(key[3]) /\ IsRank(key[4])
  /\ Len(key) = 5 => key[5] \in {"q", "r", "b", "n"}

\* C13: every key of every entry of a result of run is a well-formed move
\* notation.
KeysAreMoves ==
  \A c \in 1..Len(calls) :
    (calls[c].kind = "run" /\ Resolved(c)) =>
      \A i \in 1..Len(calls[c].value) : IsMoveNotation(calls[c].value[i][1])

IsBestmove(line) == FirstWord(line) = tBestmove

HasBestmove(lines) == \E i \in 1..Len(lines) : IsBestmove(lines[i])

FirstBestmove(lines) ==
  CHOOSE i \in 1..Len(lines) :
    IsBestmove(lines[i]) /\ \A j \in 1..(i - 1) : ~IsBestmove(lines[j])

\* the move map after the first n of the lines have been processed
RECURSIVE MapAfter(_, _, _)
MapAfter(ml, lines, n) ==
  IF n = 0 THEN ml
  ELSE LET m == MapAfter(ml, lines, n - 1)
           words == Split(lines[n], SP)
       IN IF IsEvalLine(words) THEN PutMove(m, Word(words, 25), MoveRecord(words)) ELSE m

\* the result of a run completed by this pass in getMovesList mode: the sorted
\* move map as it is when the first bestmove line of the pass is reached
ResultAtBestmove(ml, lines) ==
  SortMoves(ObjectEntries(MapAfter(ml, lines, FirstBestmove(lines) - 1)))

\* C14: in getMovesList mode a line whose first token is 'bestmove' completes
\* the run at once, whatever its other tokens; the result holds the
\* evaluations of the lines processed before it and none of the lines after
\* it, lines of the same pass included.
BestmoveEndsAnalysis ==
  [][(/\ pass' # <<>>
      /\ passMode' = "getMovesList"
      /\ HasBestmove(PassLines(pass'))
      /\ Pending)
       => /\ calls'[Latest].state = "resolved"
          /\ calls'[Latest].value = ResultAtBestmove(moveList, PassLines(pass'))]_vars

\* a run completed by a pass that held, after the bestmove line, an
\* evaluation line whose move the move map holds and the result does not
BestmoveEndsAnalysisWitness ==
  /\ LatestResolved("run")
  /\ passMode = "getMovesList"
  /\ HasBestmove(PassLines(pass))
  /\ \E j \in 1..Len(PassLines(pass)) :
       /\ j > FirstBestmove(PassLines(pass))
       /\ PassLines(pass)[j] \in InfoLines
  /\ Keys(moveList) \ Keys(calls[Latest].value) # {}

\* C15: a 'data' event in mode 'none' that dispatches empties the buffer and
\* calls no parser: the position string, the move map, the calls and the mode
\* stay as they are.
IdleDiscards ==
  [][(mode = "none" /\ pass' # <<>>)
       => /\ buffer' = <<>>
          /\ fen' = fen /\ moveList' = moveList /\ maxDepth' = maxDepth
          /\ calls' = calls
          /\ mode' = "none"]_vars

\* a line with the shape of a position report was dispatched in mode 'none'
IdleDiscardsWitness ==
  /\ mode = "none"
  /\ passMode = "none"
  /\ \E i \in 1..Len(PassLines(pass)) : FirstWord(PassLines(pass)[i]) = tFen
  /\ fen = Undefined

IsFenLine(line) == FirstWord(line) = tFen

FirstFenLine(lines) ==
  lines[CHOOSE i \in 1..Len(lines) : IsFenLine(lines[i]) /\ \A j \in 1..(i - 1) : ~IsFenLine(lines[j])]

\* the position string a report line carries
FenOf(line) == CHOOSE f \in Fens : FenLine(f) = line

\* C20: a call resolves once: setPosition with the position string of the
\* first 'Fen:' line dispatched after the call, run with the move map as of
\* the first 'bestmove' line dispatched after the call; a resolved call keeps
\* its value whatever is dispatched later.
ResolvedOnce ==
  [][\A c \in 1..Len(calls) :
       /\ Resolved(c) => calls'[c] = calls[c]
       /\ (calls[c].state = "pending" /\ calls'[c].state = "resolved") =>
            calls'[c].value =
              IF calls[c].kind = "setPosition"
              THEN FenOf(FirstFenLine(PassLines(pass')))
              ELSE ResultAtBestmove(moveList, PassLines(pass'))]_vars

\* the latest call is resolved and a marker line dispatched later, the mode
\* unchanged, has replaced the session's position string or move map
ResolvedOnceWitness ==
  /\ Latest = 2
  /\ Resolved(1) /\ Resolved(2)
  /\ \/ calls[2].kind = "setPosition" /\ calls[2].value # fen
     \/ calls[2].kind = "run" /\ calls[2].value # SortMoves(ObjectEntries(moveList))

\* ------------------------------------------------------- framing and routing
\* the bytes a 'data' step takes off the pipe
Chunk == SubSeq(stdout, 1, Len(stdout) - Len(stdout'))

IsDataStep == Len(stdout') < Len(stdout)

\* C17: a pass happens only when the buffer with the chunk appended ends
\* with the terminator, and then it takes the whole buffer and empties it;
\* otherwise the buffer keeps everything, complete lines included.
PassOnTerminatedBuffer ==
  [][IsDataStep =>
       LET b == buffer \o Chunk
       IN IF b[Len(b)] = NL
          THEN pass' = b /\ buffer' = <<>>
          ELSE pass' = <<>> /\ buffer' = b]_vars

\* the buffer holds a complete line before an unterminated rest
PassOnTerminatedBufferWitness ==
  /\ buffer # <<>>
  /\ pass = <<>>
  /\ \E i \in 1..(Len(buffer) - 1) : buffer[i] = NL /\ i > 1 /\ buffer[i - 1] # NL

HasFenLine(lines) == \E i \in 1..Len(lines) : IsFenLine(lines[i])

LastFenLine(lines) ==
  lines[CHOOSE i \in 1..Len(lines) :
          IsFenLine(lines[i]) /\ \A j \in (i + 1)..Len(lines) : ~IsFenLine(lines[j])]

\* C16: the lines of a pass all go to the parser of the mode at the pass: in
\* setPosition mode only the position string changes (to that of the last
\* report line), in getMovesList mode only the move map (by every evaluation
\* line); setPosition and run leave the buffer as it is, so bytes buffered
\* before a request are parsed in the mode the request sets.
ParserOfMode ==
  [][/\ Len(calls') > Len(calls) => buffer' = buffer
     /\ pass' # <<>> =>
          /\ passMode' = mode
          /\ mode = "setPosition" =>
               /\ moveList' = moveList
               /\ maxDepth' = maxDepth
               /\ fen' = IF HasFenLine(PassLines(pass'))
                         THEN FenOf(LastFenLine(PassLines(pass'))) ELSE fen
          /\ mode = "getMovesList" =>
               /\ fen' = fen
               /\ moveList' = MapAfter(moveList, PassLines(pass'), Len(PassLines(pass')))]_vars

\* a pass in getMovesList mode held a line of the answer to 'd' beside an
\* evaluation line: the position string was not stored, the evaluation was
ParserOfModeWitness ==
  /\ passMode = "getMovesList"
  /\ HasFenLine(PassLines(pass))
  /\ \E i \in 1..Len(PassLines(pass)) : PassLines(pass)[i] \in InfoLines
  /\ fen = Undefined
  /\ moveList # <<>>

PendingOf(kind) == {c \in 1..Len(calls) : calls[c].kind = kind /\ calls[c].state = "pending"}

\* C18: a request issued while another is pending sets the mode and sends its
\* commands; a report line dispatched in getMovesList mode completes no
\* pending setPosition; a report line dispatched in setPosition mode resolves
\* every pending setPosition with the position string of the first report
\* line of the pass.
NoReentrancyGuard ==
  [][/\ (Pending /\ Len(calls') > Len(calls)) =>
          /\ mode' = IF calls'[Len(calls')].kind = "setPosition" THEN "setPosition" ELSE "getMovesList"
          /\ Len(stdin') > Len(stdin)
          /\ SubSeq(stdin', 1, Len(stdin)) = stdin
          /\ \A i \in (Len(stdin) + 1)..Len(stdin') : stdin'[i].call = Len(calls')
     /\ (pass' # <<>> /\ HasFenLine(PassLines(pass'))) =>
          /\ mode = "getMovesList" =>
               \A c \in PendingOf("setPosition") : calls'[c] = calls[c]
          /\ mode = "setPosition" =>
               \A c \in PendingOf("setPosition") :
                 /\ calls'[c].state = "resolved"
                 /\ calls'[c].value = FenOf(FirstFenLine(PassLines(pass')))]_vars

\* two setPosition calls, the second issued while the first was pending,
\* both resolved by the report line the engine printed for the first
NoReentrancyGuardWitness ==
  /\ Latest = 2
  /\ calls[1].kind = "setPosition" /\ Resolved(1)
  /\ calls[2].kind = "setPosition" /\ Resolved(2)
  /\ calls[1].value = calls[2].value
  /\ answer.call = 1

CallsOf(kind) == {c \in 1..Len(calls) : calls[c].kind = kind}

\* C19: the listeners of an event are the calls of its kind, all of them, in
\* call order; a firing of 'fen-done' (resp. 'get-moves-list-done') leaves no
\* call of the kind pending and leaves every call resolved before as it was.
WaitersAccumulate ==
  /\ [](\A kind \in {"setPosition", "run"} :
          /\ Len(eventDone[EventOf(kind)]) = Cardinality(CallsOf(kind))
          /\ \A c \in CallsOf(kind) : ListenerCount(EventOf(kind), c) = 1)
  /\ [][/\ \A c \in 1..Len(calls) : Resolved(c) => calls'[c] = calls[c]
        /\ (pass' # <<>> /\ mode = "setPosition" /\ HasFenLine(PassLines(pass'))) =>
             \A c \in CallsOf("setPosition") : calls'[c].state = "resolved"
        /\ (pass' # <<>> /\ mode = "getMovesList" /\ HasBestmove(PassLines(pass'))) =>
             \A c \in CallsOf("run") : calls'[c].state = "resolved"]_vars

\* two listeners on 'fen-done'; the second firing found the first call
\* resolved and left its value, which differs from the second call's
WaitersAccumulateWitness ==
  /\ Len(eventDone["fen-done"]) = 2
  /\ Resolved(1) /\ Resolved(2)
  /\ calls[1].value # calls[2].value
  /\ calls[2].value = fen

\* ------------------------------------------------------------------ liveness
\* A 'data' event takes bytes off the front of the pipe: of the steps of Next
\* these are exactly the Data steps, and one is possible whenever the pipe
\* holds bytes.
DataEvent ==
  /\ stdout # <<>>
  /\ stdout' \in {SubSeq(stdout, k + 1, Len(stdout)) : k \in 1..Len(stdout)}

\* Node's event loop hands every chunk on the pipe to the 'data' listener.
SpecLive == Spec /\ WF_stdout(DataEvent)

\* the engine has printed, for the call in flight, an answer that holds the
\* call's marker line (every answer of the model is newline-terminated)
Answered ==
  /\ Pending
  /\ answer.call = Latest
  /\ MarkerIn(calls[Latest].kind, answer.lines)

\* C11: with one request in flight at a time, a call whose answer holds its
\* marker line eventually completes, whatever the chunk boundaries are.
EventuallyCompletes == Answered ~> ~Pending

\* a run completed by a pass that held the bestmove line alone, the lines
\* before it having arrived in earlier chunks
EventuallyCompletesWitness ==
  /\ LatestResolved("run")
  /\ answer.call = Latest
  /\ Len(answer.lines) >= 3
  /\ stdout = <<>>
  /\ PassLines(pass) = <<BestmoveLine>>

\* ------------------------------------------- two chunkings of one byte string
\* Two sessions receive the same bytes, each under its own chunking; framed
\* collects the non-empty lines of the buffers the 'data' listener dispatches.
sessionVars ==
  <<mode, buffer, fen, moveList, maxDepth, eventDone, calls, stdin, stdout,
    pass, passMode, undelivered, answer, printed>>

\* all byte strings over S of length 1..n
Streams == SeqsUpTo({"a", NL}, MaxStream) \ {<<>>}

InitChunk ==
  /\ Construct
  /\ stream \in Streams
  /\ sessA = NewSession(stream)
  /\ sessB = NewSession(stream)

\* the 'data' listener of a session on a chunk of k bytes
OnChunk(sess, k) ==
  LET f == Framer(sess.buffer, SubSeq(sess.rest, 1, k))
  IN [rest |-> SubSeq(sess.rest, k + 1, Len(sess.rest)),
      buffer |-> f.buffer,
      framed |-> sess.framed \o PassLines(f.pass)]

DataA ==
  \E k \in 1..Len(sessA.rest) :
    /\ sessA' = OnChunk(sessA, k)
    /\ UNCHANGED <<stream, sessB, sessionVars>>

DataB ==
  \E k \in 1..Len(sessB.rest) :
    /\ sessB' = OnChunk(sessB, k)
    /\ UNCHANGED <<stream, sessA, sessionVars>>

NextChunk == DataA \/ DataB

SpecChunk == InitChunk /\ [][NextChunk]_vars

\* C4: for any two chunkings of one byte string, the lines handed to the
\* dispatcher once all chunks are handled are the same.
SameLinesForAnyChunking ==
  (sessA.rest = <<>> /\ sessB.rest = <<>>) => sessA.framed = sessB.framed

====
